---- MODULE Spec2Model ----
(***************************************************************************)
(* Model of the control core of BuzzFence/buzzFence/buzzFence.ino: the     *)
(* loop() tick, the adaptive scanner scanAndRespond(), the signal mapper   *)
(* mapRSSIToMotorSpeed(), the boundary pattern handleBoundaryWarning() and *)
(* the failsafe enterFailsafeMode()/exitFailsafeMode().                    *)
(*                                                                         *)
(* The sketch is single threaded.  One action of the model is one          *)
(* iteration of loop(), with everything it calls.  The functions of the    *)
(* sketch are operators from a state record to a state record, composed    *)
(* in the order the code calls them.  Time is millis(), in milliseconds:   *)
(* the field now.  It advances by the delay() calls of the code and by the *)
(* duration of WiFi.scanNetworks(), which is the environment's choice.     *)
(* The unsigned subtractions of the code are modelled as plain             *)
(* subtractions: now never decreases and stays far below 2^32.             *)
(* The LED (digitalWrite) and Serial are not modelled.                     *)
(***************************************************************************)
EXTENDS Integers, Sequences, FiniteSets, TLC

VARIABLES
    now,                 \* millis()
    lastScanTime, lastNetworkSeen, buzzStartTime, currentScanInterval,
    failedScans, inBoundaryWarning, inFailsafe, buzzCount, buzzing, buzzPause,
    currentMotorSpeed,
    motorPin,            \* the value last given to analogWrite(MOTOR_PIN, ...)
    \* observation (history) variables, never read by the modelled code
    trace,               \* what the last iteration of loop() did, in order
    \* the next three are 0 while the pattern is not entered
    patternEnteredAt,    \* millis() at the last enterBoundaryWarning()
    patternTickedAt,     \* millis() read by the last handleBoundaryWarning()
    pulsesDone,          \* pulses ended since the last enterBoundaryWarning()
    streamPos,           \* how many scans so far followed ScenarioStream (-1: left it)
    iter,                \* iterations of loop() so far
    longScans,           \* scans that took LongScan so far
    lastLongIter,        \* the iteration of the last such scan (0: none)
    \* the signal mapper applied on its own (specification SpecMap)
    mapIn, mapOut

vars == <<now, lastScanTime, lastNetworkSeen, buzzStartTime, currentScanInterval,
          failedScans, inBoundaryWarning, inFailsafe, buzzCount, buzzing, buzzPause,
          currentMotorSpeed, motorPin, trace, patternEnteredAt, patternTickedAt, pulsesDone,
          streamPos, iter, longScans, lastLongIter, mapIn, mapOut>>

---------------------------------------------------------------------------
\* Program constants (buzzFence.ino lines 11-18 and the literals of the code)
RSSI_THRESHOLD == -75
BUZZ_DURATION == 300
BUZZ_PAUSE == 100
PATTERN_PAUSE == 2000
NORMAL_SCAN_INTERVAL == 1000
FAST_SCAN_INTERVAL == 200
FAILSAFE_TIMEOUT == 30000
MAX_SCAN_ATTEMPTS == 3
SETUP_DELAY == 1000
LOOP_DELAY == 10
STRONG_RSSI == -40
NEAR_BOUNDARY_SPEED == 150
WARNING_SPEED == 200
MAX_SPEED == 255
FAILSAFE_PULSES == 2
FAILSAFE_PULSE_ON == 500
FAILSAFE_PULSE_OFF == 300

\* Bounds of the model
MaxIter == 330           \* iterations of loop() explored
MaxLongScans == 1        \* scans allowed to take LongScan
MaxAfterLong == 60       \* iterations explored after a scan that took LongScan
LongScan == 30000        \* duration of a slow WiFi.scanNetworks()
MapLow == 90             \* the mapper is explored on -MapLow .. -MapHigh
MapHigh == 30

\* Signal strengths a scan may report for the target
Strengths == {-30, -60, -75, -80}
\* Durations of WiFi.scanNetworks()
ScanDurations == {0, LongScan}
\* The strength stream of the scenario of spec section 8
ScenarioStream == <<-30, -30, -80, -80, -80, -30>>

---------------------------------------------------------------------------
\* Helpers

\* C integer division truncates toward zero
CDiv(a, b) ==
    LET q == (IF a < 0 THEN -a ELSE a) \div (IF b < 0 THEN -b ELSE b)
    IN IF (a < 0) = (b < 0) THEN q ELSE -q

\* Arduino constrain(x, lo, hi)
constrain(x, lo, hi) == IF x < lo THEN lo ELSE IF x > hi THEN hi ELSE x

\* map() rounding to the nearest integer instead of truncating
map_Rounded(x, in_min, in_max, out_min, out_max) ==
    CDiv((x - in_min) * (out_max - out_min) + CDiv(in_max - in_min, 2),
         in_max - in_min) + out_min

\* Arduino map(x, in_min, in_max, out_min, out_max)
map(x, in_min, in_max, out_min, out_max) ==
    CDiv((x - in_min) * (out_max - out_min), in_max - in_min) + out_min

\* delay(ms)
delay(s, ms) == [s EXCEPT !.now = @ + ms]

\* observation only: append an event to the iteration's trace
Log(s, e, v) == [s EXCEPT !.trace = Append(@, [ev |-> e, v |-> v])]

\* the pattern sub-state as a number, for the trace: 0 Idle, 1 Pulsing, 2 pause
SubState(s) == IF s.buzzing THEN 1 ELSE IF s.buzzPause THEN 2 ELSE 0

---------------------------------------------------------------------------
\* the mapper with the input range of map() given in increasing order
mapRSSIToMotorSpeed_RangeSwapped(rssi) ==
    IF rssi >= STRONG_RSSI THEN 0
    ELSE IF rssi <= RSSI_THRESHOLD THEN NEAR_BOUNDARY_SPEED
    ELSE map(rssi, RSSI_THRESHOLD, STRONG_RSSI, 0, NEAR_BOUNDARY_SPEED)

\* int mapRSSIToMotorSpeed(int rssi)
mapRSSIToMotorSpeed(rssi) ==
    IF rssi >= STRONG_RSSI THEN 0
    ELSE IF rssi <= RSSI_THRESHOLD THEN NEAR_BOUNDARY_SPEED
    ELSE map(rssi, STRONG_RSSI, RSSI_THRESHOLD, 0, NEAR_BOUNDARY_SPEED)

\* setMotorSpeed() without the test speed != currentMotorSpeed
setMotorSpeed_AlwaysWrite(s, speed) ==
    LET sp == constrain(speed, 0, MAX_SPEED)
    IN [Log(Log(s, "cmd", sp), "write", sp) EXCEPT !.motorPin = sp,
                                                   !.currentMotorSpeed = sp]

\* setMotorSpeed() without currentMotorSpeed = speed
setMotorSpeed_NoRecord(s, speed) ==
    LET sp == constrain(speed, 0, MAX_SPEED)
        s1 == Log(s, "cmd", sp)
    IN IF sp # s1.currentMotorSpeed
       THEN [Log(s1, "write", sp) EXCEPT !.motorPin = sp]
       ELSE s1

\* void setMotorSpeed(int speed): "cmd" is the call, "write" the analogWrite
setMotorSpeed(s, speed) ==
    LET sp == constrain(speed, 0, MAX_SPEED)
        s1 == Log(s, "cmd", sp)
    IN IF sp # s1.currentMotorSpeed
       THEN [Log(s1, "write", sp) EXCEPT !.motorPin = sp, !.currentMotorSpeed = sp]
       ELSE s1

\* void enterBoundaryWarning()
enterBoundaryWarning(s) ==
    setMotorSpeed([Log(s, "enterBW", 0) EXCEPT
                      !.inBoundaryWarning = TRUE,
                      !.buzzCount = 0,
                      !.buzzing = FALSE,
                      !.buzzPause = FALSE,
                      !.patternEnteredAt = s.now,
                      !.pulsesDone = 0], 0)

\* exitBoundaryWarning() without buzzing = false
exitBoundaryWarning_KeepBuzzing(s) ==
    setMotorSpeed([Log(s, "exitBW", (IF s.inBoundaryWarning THEN 10 ELSE 0) + SubState(s))
                   EXCEPT
                      !.inBoundaryWarning = FALSE,
                      !.buzzPause = FALSE,
                      !.patternEnteredAt = 0,
                      !.patternTickedAt = 0,
                      !.pulsesDone = 0], 0)

\* void exitBoundaryWarning(): the event carries whether the machine was
\* entered (10 + sub-state) or not (the sub-state alone); the observation
\* variables of the pattern are cleared
exitBoundaryWarning(s) ==
    setMotorSpeed([Log(s, "exitBW", (IF s.inBoundaryWarning THEN 10 ELSE 0) + SubState(s))
                   EXCEPT
                      !.inBoundaryWarning = FALSE,
                      !.buzzing = FALSE,
                      !.buzzPause = FALSE,
                      !.patternEnteredAt = 0,
                      !.patternTickedAt = 0,
                      !.pulsesDone = 0], 0)

\* void handleBoundaryWarning(), its three if-statements in order
hbwStart(s, currentTime) ==
    IF ~s.buzzing /\ ~s.buzzPause
    THEN setMotorSpeed([s EXCEPT !.buzzing = TRUE, !.buzzStartTime = currentTime],
                       WARNING_SPEED)
    ELSE s

\* the end of a pulse without buzzing = false
hbwEnd_KeepBuzzing(s, currentTime) ==
    IF s.buzzing /\ currentTime - s.buzzStartTime >= BUZZ_DURATION
    THEN LET s1 == setMotorSpeed([Log(s, "pulseEnd", s.buzzCount + 1) EXCEPT
                                     !.buzzCount = @ + 1,
                                     !.pulsesDone = @ + 1], 0)
         IN IF s1.buzzCount < 3
            THEN [s1 EXCEPT !.buzzPause = TRUE, !.buzzStartTime = currentTime]
            ELSE [Log(s1, "patternComplete", 0) EXCEPT
                     !.buzzCount = 0, !.buzzPause = TRUE, !.buzzStartTime = currentTime]
    ELSE s

\* the end of a pulse with buzzCount <= 3 for buzzCount < 3
hbwEnd_OffByOne(s, currentTime) ==
    IF s.buzzing /\ currentTime - s.buzzStartTime >= BUZZ_DURATION
    THEN LET s1 == setMotorSpeed([Log(s, "pulseEnd", s.buzzCount + 1) EXCEPT
                                     !.buzzing = FALSE,
                                     !.buzzCount = @ + 1,
                                     !.pulsesDone = @ + 1], 0)
         IN IF s1.buzzCount <= 3
            THEN [s1 EXCEPT !.buzzPause = TRUE, !.buzzStartTime = currentTime]
            ELSE [Log(s1, "patternComplete", 0) EXCEPT
                     !.buzzCount = 0, !.buzzPause = TRUE, !.buzzStartTime = currentTime]
    ELSE s

hbwEnd(s, currentTime) ==
    IF s.buzzing /\ currentTime - s.buzzStartTime >= BUZZ_DURATION
    THEN LET s1 == setMotorSpeed([Log(s, "pulseEnd", s.buzzCount + 1) EXCEPT
                                     !.buzzing = FALSE,
                                     !.buzzCount = @ + 1,
                                     !.pulsesDone = @ + 1], 0)
         IN IF s1.buzzCount < 3
            THEN [s1 EXCEPT !.buzzPause = TRUE, !.buzzStartTime = currentTime]
            ELSE [Log(s1, "patternComplete", 0) EXCEPT
                     !.buzzCount = 0, !.buzzPause = TRUE, !.buzzStartTime = currentTime]
    ELSE s

\* the pause check with BUZZ_PAUSE for every pause
hbwPause_ShortOnly(s, currentTime) ==
    IF s.buzzPause
    THEN IF currentTime - s.buzzStartTime >= BUZZ_PAUSE
         THEN [s EXCEPT !.buzzPause = FALSE]
         ELSE s
    ELSE s

hbwPause(s, currentTime) ==
    IF s.buzzPause
    THEN LET pauseDuration == IF s.buzzCount = 0 THEN PATTERN_PAUSE ELSE BUZZ_PAUSE
         IN IF currentTime - s.buzzStartTime >= pauseDuration
            THEN [s EXCEPT !.buzzPause = FALSE]
            ELSE s
    ELSE s

handleBoundaryWarning(s) ==
    LET currentTime == s.now
        s0 == [Log(s, "tickBW", SubState(s)) EXCEPT !.patternTickedAt = currentTime]
    IN hbwPause(hbwEnd(hbwStart(s0, currentTime), currentTime), currentTime)

\* the for loop of enterFailsafeMode(): n warning pulses
RECURSIVE warningPulses(_, _)
warningPulses(s, n) ==
    IF n = 0 THEN s
    ELSE warningPulses(
            delay(setMotorSpeed(delay(setMotorSpeed(s, MAX_SPEED), FAILSAFE_PULSE_ON), 0),
                  FAILSAFE_PULSE_OFF),
            n - 1)

\* enterFailsafeMode() without its call of exitBoundaryWarning()
enterFailsafeMode_NoExit(s) ==
    IF ~s.inFailsafe
    THEN setMotorSpeed(
            warningPulses([Log(s, "enterFS", 0) EXCEPT !.inFailsafe = TRUE],
                          FAILSAFE_PULSES),
            MAX_SPEED)
    ELSE s

\* enterFailsafeMode() without its guard if (!inFailsafe)
enterFailsafeMode_Replay(s) ==
    setMotorSpeed(
        warningPulses(
            exitBoundaryWarning([Log(s, "enterFS", 0) EXCEPT !.inFailsafe = TRUE]),
            FAILSAFE_PULSES),
        MAX_SPEED)

\* enterFailsafeMode() without inFailsafe = true
enterFailsafeMode_NoFlag(s) ==
    IF ~s.inFailsafe
    THEN setMotorSpeed(
            warningPulses(exitBoundaryWarning(Log(s, "enterFS", 0)), FAILSAFE_PULSES),
            MAX_SPEED)
    ELSE s

\* void enterFailsafeMode()
enterFailsafeMode(s) ==
    IF ~s.inFailsafe
    THEN setMotorSpeed(
            warningPulses(
                exitBoundaryWarning([Log(s, "enterFS", 0) EXCEPT !.inFailsafe = TRUE]),
                FAILSAFE_PULSES),
            MAX_SPEED)
    ELSE s

\* exitFailsafeMode() without setMotorSpeed(0)
exitFailsafeMode_NoSilence(s) ==
    IF s.inFailsafe
    THEN [Log(s, "exitFS", 0) EXCEPT !.inFailsafe = FALSE]
    ELSE s

\* void exitFailsafeMode()
exitFailsafeMode(s) ==
    IF s.inFailsafe
    THEN setMotorSpeed([Log(s, "exitFS", 0) EXCEPT !.inFailsafe = FALSE], 0)
    ELSE s

\* the failsafe condition with failedScans > MAX_SCAN_ATTEMPTS
failsafeCondition_OffByOne(s) ==
    (s.now - s.lastNetworkSeen > FAILSAFE_TIMEOUT) \/ (s.failedScans > MAX_SCAN_ATTEMPTS)

\* scanAndRespond(), lines 101-115: the target is not in the scan result
failsafeCondition(s) ==
    (s.now - s.lastNetworkSeen > FAILSAFE_TIMEOUT) \/ (s.failedScans >= MAX_SCAN_ATTEMPTS)

\* the absent branch without the return after enterFailsafeMode(): the
\* code falls through to lines 117-128 with targetRSSI = -100
respondAbsent_NoReturn(s) ==
    LET s1 == Log([s EXCEPT !.failedScans = @ + 1], "absent", s.now)
    IN IF failsafeCondition(s1)
       THEN LET s2 == exitFailsafeMode(enterFailsafeMode(s1))
            IN [(IF ~s2.inBoundaryWarning THEN enterBoundaryWarning(s2) ELSE s2)
                   EXCEPT !.currentScanInterval = FAST_SCAN_INTERVAL]
       ELSE [setMotorSpeed(s1, MAX_SPEED) EXCEPT !.currentScanInterval = FAST_SCAN_INTERVAL]

respondAbsent(s) ==
    LET s1 == Log([s EXCEPT !.failedScans = @ + 1], "absent", s.now)
    IN IF failsafeCondition(s1)
       THEN enterFailsafeMode(s1)
       ELSE [setMotorSpeed(s1, MAX_SPEED) EXCEPT !.currentScanInterval = FAST_SCAN_INTERVAL]

\* the weak branch without the test if (!inBoundaryWarning)
respondWeak_AlwaysEnter(s) ==
    [enterBoundaryWarning(s) EXCEPT !.currentScanInterval = FAST_SCAN_INTERVAL]

\* scanAndRespond(), lines 122-141: the response to the target's strength
respondWeak(s) ==
    [(IF ~s.inBoundaryWarning THEN enterBoundaryWarning(s) ELSE s)
        EXCEPT !.currentScanInterval = FAST_SCAN_INTERVAL]

\* the strong branch without currentScanInterval = NORMAL_SCAN_INTERVAL
respondStrong_KeepInterval(s, targetRSSI) ==
    setMotorSpeed(IF s.inBoundaryWarning THEN exitBoundaryWarning(s) ELSE s,
                  mapRSSIToMotorSpeed(targetRSSI))

respondStrong(s, targetRSSI) ==
    [setMotorSpeed(IF s.inBoundaryWarning THEN exitBoundaryWarning(s) ELSE s,
                   mapRSSIToMotorSpeed(targetRSSI))
        EXCEPT !.currentScanInterval = NORMAL_SCAN_INTERVAL]

\* the found branch without lines 118-120 (no exitFailsafeMode())
respondFound_NoRecovery(s, targetRSSI) ==
    LET s1 == Log([s EXCEPT !.lastNetworkSeen = s.now, !.failedScans = 0],
                  "found", targetRSSI)
    IN IF targetRSSI <= RSSI_THRESHOLD
       THEN respondWeak(s1)
       ELSE respondStrong(s1, targetRSSI)

respondFound(s, targetRSSI) ==
    LET s1 == Log([s EXCEPT !.lastNetworkSeen = s.now, !.failedScans = 0],
                  "found", targetRSSI)
        s2 == IF s1.inFailsafe THEN exitFailsafeMode(s1) ELSE s1
    IN IF targetRSSI <= RSSI_THRESHOLD
       THEN respondWeak(s2)
       ELSE respondStrong(s2, targetRSSI)

\* observation only: follow ScenarioStream while the scans report it
followStream(s, targetFound, targetRSSI) ==
    [s EXCEPT !.streamPos =
        IF @ >= 0 /\ @ < Len(ScenarioStream) /\ targetFound
           /\ s.longScans = 0 /\ targetRSSI = ScenarioStream[@ + 1]
        THEN @ + 1 ELSE -1]

\* void scanAndRespond(); the scan's result is the target's presence and
\* strength, and WiFi.scanNetworks() takes dur milliseconds
scanAndRespond(s, targetFound, targetRSSI, dur) ==
    LET s0 == delay([s EXCEPT !.longScans = @ + (IF dur = 0 THEN 0 ELSE 1),
                              !.lastLongIter = IF dur = 0 THEN @ ELSE s.iter], dur)
        s1 == followStream(s0, targetFound, targetRSSI)
    IN IF targetFound THEN respondFound(s1, targetRSSI) ELSE respondAbsent(s1)

\* whether loop() scans in this iteration (line 62)
scanDue(s) == s.now - s.lastScanTime >= s.currentScanInterval

\* void loop()
loop(s, targetFound, targetRSSI, dur) ==
    LET currentTime == s.now
        s0 == [s EXCEPT !.trace = <<>>, !.iter = @ + 1]
        s1 == IF scanDue(s0)
              THEN [scanAndRespond(s0, targetFound, targetRSSI, dur)
                       EXCEPT !.lastScanTime = currentTime]
              ELSE s0
        s2 == IF s1.inBoundaryWarning /\ ~s1.inFailsafe
              THEN handleBoundaryWarning(s1)
              ELSE s1
    IN delay(s2, LOOP_DELAY)

---------------------------------------------------------------------------
\* The state as a record, and back

State ==
    [now |-> now, lastScanTime |-> lastScanTime, lastNetworkSeen |-> lastNetworkSeen,
     buzzStartTime |-> buzzStartTime, currentScanInterval |-> currentScanInterval,
     failedScans |-> failedScans, inBoundaryWarning |-> inBoundaryWarning,
     inFailsafe |-> inFailsafe, buzzCount |-> buzzCount, buzzing |-> buzzing,
     buzzPause |-> buzzPause, currentMotorSpeed |-> currentMotorSpeed,
     motorPin |-> motorPin,
     trace |-> trace, patternEnteredAt |-> patternEnteredAt,
     patternTickedAt |-> patternTickedAt, pulsesDone |-> pulsesDone,
     streamPos |-> streamPos, iter |-> iter, longScans |-> longScans,
     lastLongIter |-> lastLongIter]

Commit(s) ==
    /\ now' = s.now
    /\ lastScanTime' = s.lastScanTime
    /\ lastNetworkSeen' = s.lastNetworkSeen
    /\ buzzStartTime' = s.buzzStartTime
    /\ currentScanInterval' = s.currentScanInterval
    /\ failedScans' = s.failedScans
    /\ inBoundaryWarning' = s.inBoundaryWarning
    /\ inFailsafe' = s.inFailsafe
    /\ buzzCount' = s.buzzCount
    /\ buzzing' = s.buzzing
    /\ buzzPause' = s.buzzPause
    /\ currentMotorSpeed' = s.currentMotorSpeed
    /\ motorPin' = s.motorPin
    /\ trace' = s.trace
    /\ patternEnteredAt' = s.patternEnteredAt
    /\ patternTickedAt' = s.patternTickedAt
    /\ pulsesDone' = s.pulsesDone
    /\ streamPos' = s.streamPos
    /\ iter' = s.iter
    /\ longScans' = s.longScans
    /\ lastLongIter' = s.lastLongIter

\* The globals' initialisers (lines 21-33) and setup(): analogWrite(MOTOR_PIN,
\* 0) at line 43, lastNetworkSeen = millis() at line 54, taken as 0, then
\* delay(1000)
InitController ==
    /\ now = SETUP_DELAY
    /\ lastScanTime = 0
    /\ lastNetworkSeen = 0
    /\ buzzStartTime = 0
    /\ currentScanInterval = NORMAL_SCAN_INTERVAL
    /\ failedScans = 0
    /\ inBoundaryWarning = FALSE
    /\ inFailsafe = FALSE
    /\ buzzCount = 0
    /\ buzzing = FALSE
    /\ buzzPause = FALSE
    /\ currentMotorSpeed = 0
    /\ motorPin = 0
    /\ trace = <<>>
    /\ patternEnteredAt = 0
    /\ patternTickedAt = 0
    /\ pulsesDone = 0
    /\ streamPos = 0
    /\ iter = 0
    /\ longScans = 0
    /\ lastLongIter = 0

\* the part of the behaviours that is explored
Explored == iter < MaxIter /\ (longScans > 0 => iter < lastLongIter + MaxAfterLong)

Init ==
    /\ InitController
    /\ mapIn = <<0, 0>>
    /\ mapOut = <<0, 0>>

\* an iteration of loop() in which no scan is due
TickNoScan ==
    /\ Explored
    /\ ~scanDue(State)
    /\ Commit(loop(State, FALSE, 0, 0))
    /\ UNCHANGED <<mapIn, mapOut>>

\* an iteration of loop() whose scan finds the target
TickScanFound ==
    /\ Explored
    /\ scanDue(State)
    /\ \E targetRSSI \in Strengths, dur \in ScanDurations :
          /\ dur # 0 => longScans < MaxLongScans
          /\ Commit(loop(State, TRUE, targetRSSI, dur))
    /\ UNCHANGED <<mapIn, mapOut>>

\* an iteration of loop() whose scan does not find the target
TickScanAbsent ==
    /\ Explored
    /\ scanDue(State)
    /\ \E dur \in ScanDurations :
          /\ dur # 0 => longScans < MaxLongScans
          /\ Commit(loop(State, FALSE, -100, dur))
    /\ UNCHANGED <<mapIn, mapOut>>

Next == TickNoScan \/ TickScanFound \/ TickScanAbsent

Spec == Init /\ [][Next]_vars

---------------------------------------------------------------------------
\* The controller running forever.  loop() reads the clock only through the
\* ages millis() - lastScanTime, millis() - lastNetworkSeen and millis() -
\* buzzStartTime, so between iterations the clock is moved back to 0 and each
\* timestamp keeps its age, up to the largest value the code compares it with;
\* failedScans, compared with MAX_SCAN_ATTEMPTS only, stops there, and the
\* observation variables that count without end are reset; of the iteration
\* count its parity is kept.

Max(a, b) == IF a >= b THEN a ELSE b

Rebase(s) ==
    [s EXCEPT !.now = 0,
              !.lastScanTime = Max(@ - s.now, 0 - NORMAL_SCAN_INTERVAL),
              !.lastNetworkSeen = Max(@ - s.now, 0 - (FAILSAFE_TIMEOUT + 1)),
              !.buzzStartTime = Max(@ - s.now, 0 - PATTERN_PAUSE),
              !.failedScans = IF @ > MAX_SCAN_ATTEMPTS THEN MAX_SCAN_ATTEMPTS ELSE @,
              !.patternEnteredAt = 0,
              !.patternTickedAt = 0,
              !.pulsesDone = @ % 3,
              !.streamPos = -1,
              !.iter = @ % 2,
              !.longScans = 0,
              !.lastLongIter = 0]

\* the state after setup(), SETUP_DELAY after lastNetworkSeen = millis()
InitLive ==
    /\ now = 0
    /\ lastScanTime = 0 - SETUP_DELAY
    /\ lastNetworkSeen = 0 - SETUP_DELAY
    /\ buzzStartTime = 0 - SETUP_DELAY
    /\ currentScanInterval = NORMAL_SCAN_INTERVAL
    /\ failedScans = 0
    /\ inBoundaryWarning = FALSE
    /\ inFailsafe = FALSE
    /\ buzzCount = 0
    /\ buzzing = FALSE
    /\ buzzPause = FALSE
    /\ currentMotorSpeed = 0
    /\ motorPin = 0
    /\ trace = <<>>
    /\ patternEnteredAt = 0
    /\ patternTickedAt = 0
    /\ pulsesDone = 0
    /\ streamPos = -1
    /\ iter = 0
    /\ longScans = 0
    /\ lastLongIter = 0
    /\ mapIn = <<0, 0>>
    /\ mapOut = <<0, 0>>

LiveTickNoScan ==
    /\ ~scanDue(State)
    /\ Commit(Rebase(loop(State, FALSE, 0, 0)))
    /\ UNCHANGED <<mapIn, mapOut>>

LiveTickScanFound ==
    /\ scanDue(State)
    /\ \E targetRSSI \in Strengths, dur \in ScanDurations :
          Commit(Rebase(loop(State, TRUE, targetRSSI, dur)))
    /\ UNCHANGED <<mapIn, mapOut>>

LiveTickScanAbsent ==
    /\ scanDue(State)
    /\ \E dur \in ScanDurations :
          Commit(Rebase(loop(State, FALSE, -100, dur)))
    /\ UNCHANGED <<mapIn, mapOut>>

NextLive == LiveTickNoScan \/ LiveTickScanFound \/ LiveTickScanAbsent

\* an iteration of loop() has run: every step of NextLive, and no other,
\* changes the parity of the iteration count
LoopRuns == iter' = (iter + 1) % 2

\* the Arduino core calls loop() again whenever it returns, and every call
\* returns, its delays and the scan being finite: iterations never cease
SpecLive == InitLive /\ [][NextLive]_vars /\ WF_iter(LoopRuns)

---------------------------------------------------------------------------
\* The signal mapper on its own: two strengths, mapped by one action

MapRange == (0 - MapLow) .. (0 - MapHigh)

InitMap ==
    /\ InitController
    /\ mapIn \in MapRange \X MapRange
    /\ mapOut = <<-1, -1>>

MapApply ==
    /\ mapOut = <<-1, -1>>
    /\ mapOut' = <<mapRSSIToMotorSpeed(mapIn[1]), mapRSSIToMotorSpeed(mapIn[2])>>
    /\ UNCHANGED <<now, lastScanTime, lastNetworkSeen, buzzStartTime, currentScanInterval,
                   failedScans, inBoundaryWarning, inFailsafe, buzzCount, buzzing,
                   buzzPause, currentMotorSpeed, motorPin, trace, patternEnteredAt,
                   patternTickedAt,
                   pulsesDone, streamPos, iter, longScans, lastLongIter, mapIn>>

NextMap == MapApply

SpecMap == InitMap /\ [][NextMap]_vars

---------------------------------------------------------------------------
\* Reading the trace of an iteration

EvIdx(tr, e) == {i \in 1..Len(tr) : tr[i].ev = e}
HasIn(tr, e) == EvIdx(tr, e) # {}
Has(e) == HasIn(trace, e)
\* the arguments of the setMotorSpeed calls, and the values written, in order
ValuesOf(tr, e) ==
    LET sel == SelectSeq(tr, LAMBDA x : x.ev = e)
    IN [i \in 1..Len(sel) |-> sel[i].v]
Cmds == ValuesOf(trace, "cmd")
Writes == ValuesOf(trace, "write")
\* the pattern's sub-states
Idle == ~buzzing /\ ~buzzPause

---------------------------------------------------------------------------
\* C1: failsafe Active and boundary pattern entered are never both true at
\* the end of an iteration; while failsafe is Active the pattern is Idle
\* (buzzing and buzzPause false) and handleBoundaryWarning was not called.
C1_MutualExclusion ==
    /\ ~(inFailsafe /\ inBoundaryWarning)
    /\ inFailsafe => (~buzzing /\ ~buzzPause /\ ~Has("tickBW"))

\* failsafe was entered in this iteration from a pattern in mid-pulse
C1_Witness ==
    /\ inFailsafe
    /\ Has("enterFS")
    /\ \E i \in EvIdx(trace, "exitBW") : trace[i].v = 11

\* C2: after a scan that does not find the target, failsafe is Active iff
\* the incremented miss counter is >= MAX_SCAN_ATTEMPTS or the time since
\* the last sighting, read at the check, is > FAILSAFE_TIMEOUT; and a scan
\* that finds the target resets the miss counter.
C2_FailsafeIff ==
    /\ \A i \in EvIdx(trace, "absent") :
          inFailsafe <=> (failedScans >= MAX_SCAN_ATTEMPTS
                          \/ trace[i].v - lastNetworkSeen > FAILSAFE_TIMEOUT)
    /\ Has("absent") => failedScans >= 1
    /\ Has("found") => failedScans = 0

\* failsafe entered by the timeout alone, with fewer misses than the maximum
C2_Witness ==
    /\ Has("absent")
    /\ Has("enterFS")
    /\ inFailsafe
    /\ failedScans < MAX_SCAN_ATTEMPTS

\* failsafe entered by the misses alone, before the timeout elapsed
C2_WitnessMisses ==
    /\ Has("enterFS")
    /\ inFailsafe
    /\ failedScans = MAX_SCAN_ATTEMPTS
    /\ \A i \in EvIdx(trace, "absent") : trace[i].v - lastNetworkSeen <= FAILSAFE_TIMEOUT

\* C3: from a state with failsafe Active, an iteration leaves it Active
\* unless its scan found the target, and a scan that finds the target is
\* the step that makes it Inactive.
C3_OnlyFoundExits ==
    [][inFailsafe => (inFailsafe' <=> ~HasIn(trace', "found"))]_vars

\* an absent scan made while already Active, long after the timeout and
\* beyond the maximum of misses, left failsafe Active
C3_Witness ==
    /\ inFailsafe
    /\ Has("absent")
    /\ ~Has("enterFS")
    /\ failedScans > MAX_SCAN_ATTEMPTS
    /\ now - lastNetworkSeen > FAILSAFE_TIMEOUT

\* C4: the entry sequence runs exactly in the iterations that take failsafe
\* from Inactive to Active; it exits the boundary pattern first and calls
\* setMotorSpeed with 0 (the exit), 255, 0, 255, 0 and 255; while failsafe
\* is Active the motor speed is 255 at the end of every iteration, and an
\* iteration that starts with failsafe Active and keeps it calls
\* setMotorSpeed never.
C4_EntryOnce ==
    [][/\ HasIn(trace', "enterFS") <=> (~inFailsafe /\ inFailsafe')
       /\ Cardinality(EvIdx(trace', "enterFS")) <= 1
       /\ HasIn(trace', "enterFS") =>
             /\ \A i \in EvIdx(trace', "enterFS") :
                   i < Len(trace') /\ trace'[i + 1].ev = "exitBW"
             /\ ValuesOf(trace', "cmd") = <<0, 255, 0, 255, 0, 255>>
       /\ inFailsafe' => currentMotorSpeed' = 255
       /\ (inFailsafe /\ inFailsafe') =>
             (ValuesOf(trace', "cmd") = <<>> /\ currentMotorSpeed' = currentMotorSpeed)
      ]_vars

\* an absent scan while Active, after an entry by the third miss, replayed
\* nothing
C4_Witness ==
    /\ inFailsafe
    /\ Has("absent")
    /\ ~Has("enterFS")
    /\ Cmds = <<>>
    /\ failedScans = MAX_SCAN_ATTEMPTS + 1
    /\ currentMotorSpeed = 255

\* C5 (as claimed): when the pattern, entered and not exited, is ticked at
\* exactly 3*(BUZZ_DURATION+BUZZ_PAUSE) - BUZZ_PAUSE + PATTERN_PAUSE after
\* its entry, three pulses and the long pause are over and it is Idle with
\* pulse count 0.
CycleTime == 3 * (BUZZ_DURATION + BUZZ_PAUSE) - BUZZ_PAUSE + PATTERN_PAUSE

C5_Original ==
    (inBoundaryWarning /\ patternTickedAt - patternEnteredAt = CycleTime)
        => (Idle /\ buzzCount = 0 /\ pulsesDone = 3)

\* C5 (amended): the pattern is Idle again after its first three pulses and
\* long pause only with pulse count 0 and not before CycleTime plus two
\* loop delays have passed since the entry (each short pause ends in an
\* Idle tick, the next pulse starts one iteration later); up to CycleTime
\* at most three pulses have ended, and once the third has, the long pause
\* is still running.
C5_CycleTakesTwoMoreTicks ==
    /\ (inBoundaryWarning /\ Idle /\ pulsesDone = 3) =>
          /\ buzzCount = 0
          /\ patternTickedAt - patternEnteredAt >= CycleTime + 2 * LOOP_DELAY
    /\ (inBoundaryWarning /\ patternTickedAt - patternEnteredAt <= CycleTime) =>
          /\ pulsesDone <= 3
          /\ pulsesDone = 3 => (buzzPause /\ ~buzzing /\ buzzCount = 0)

\* the first cycle ends exactly two loop delays after CycleTime
C5_Witness ==
    /\ inBoundaryWarning
    /\ Idle
    /\ pulsesDone = 3
    /\ buzzCount = 0
    /\ patternTickedAt - patternEnteredAt = CycleTime + 2 * LOOP_DELAY

\* C6: every exit of an entered pattern, from whichever sub-state, is
\* followed at once by setMotorSpeed(0) (a write of 0 when the motor was
\* running), leaves the machine not entered and Idle, completes no pulse,
\* and happens only on a scan that found a strong signal or on failsafe
\* entry.
C6_ExitSilences ==
    [][/\ \A i \in EvIdx(trace', "exitBW") :
             /\ i < Len(trace')
             /\ trace'[i + 1] = [ev |-> "cmd", v |-> 0]
             /\ ~inBoundaryWarning' /\ ~buzzing' /\ ~buzzPause'
             /\ ~HasIn(trace', "tickBW")
             /\ ~HasIn(trace', "pulseEnd")
             /\ trace'[i].v >= 10 <=> inBoundaryWarning
             /\ (trace'[i].v % 10 # 0 /\ currentMotorSpeed # 0) =>
                   (i + 1 < Len(trace') /\ trace'[i + 2] = [ev |-> "write", v |-> 0])
             /\ \/ HasIn(trace', "enterFS")
                \/ \E j \in EvIdx(trace', "found") : trace'[j].v > RSSI_THRESHOLD
       /\ (inBoundaryWarning /\ ~inBoundaryWarning') => HasIn(trace', "exitBW")
      ]_vars

\* a strong scan exited the pattern in mid-pulse and the motor was silenced
\* before the mapped speed was commanded
C6_Witness ==
    /\ Has("found")
    /\ \E i \in EvIdx(trace, "exitBW") : trace[i].v = 11
    /\ Len(Writes) = 2
    /\ Writes[1] = 0
    /\ ~inBoundaryWarning
    /\ Idle

\* C7: the mapper gives 0 for every strength >= -40, 150 for every strength
\* <= -75, and between them a value in 0..150 that does not increase when
\* the strength increases.
C7_MapperShape ==
    mapOut # <<-1, -1>> =>
        LET a == mapIn[1]
            b == mapIn[2]
            fa == mapOut[1]
            fb == mapOut[2]
        IN /\ a >= -40 => fa = 0
           /\ a <= -75 => fa = 150
           /\ (-75 < a /\ a < -40) => (0 <= fa /\ fa <= 150)
           /\ (-75 < a /\ a <= b /\ b < -40) => fb <= fa

\* two strengths inside the interval mapped to different speeds
C7_Witness ==
    /\ mapIn = <<-60, -50>>
    /\ mapOut[1] > mapOut[2]
    /\ mapOut[2] > 0

\* C8: after a scan that finds the target, strength <= RSSI_THRESHOLD gives
\* the FAST interval and the pattern entered; a greater strength gives the
\* NORMAL interval, the pattern not entered and the motor at the mapper's
\* value.  Along the stream -30, -30, -80, -80, -80, -30 the intervals are
\* NORMAL, NORMAL, FAST, FAST, FAST, NORMAL, the pattern is entered by the
\* third scan and exited by the sixth, which leaves the motor at 0.
ScenarioIntervals ==
    <<NORMAL_SCAN_INTERVAL, NORMAL_SCAN_INTERVAL, FAST_SCAN_INTERVAL,
      FAST_SCAN_INTERVAL, FAST_SCAN_INTERVAL, NORMAL_SCAN_INTERVAL>>

C8_FoundResponse ==
    /\ \A i \in EvIdx(trace, "found") :
          IF trace[i].v <= RSSI_THRESHOLD
          THEN currentScanInterval = FAST_SCAN_INTERVAL /\ inBoundaryWarning
          ELSE /\ currentScanInterval = NORMAL_SCAN_INTERVAL
               /\ ~inBoundaryWarning
               /\ currentMotorSpeed = mapRSSIToMotorSpeed(trace[i].v)
    /\ streamPos >= 1 =>
          /\ currentScanInterval = ScenarioIntervals[streamPos]
          /\ inBoundaryWarning <=> streamPos \in {3, 4, 5}
          /\ (streamPos = 3 /\ Has("found")) => Has("enterBW")
          /\ (streamPos \in {4, 5} /\ Has("found")) => ~Has("enterBW")
          /\ (streamPos = 6 /\ Has("found")) => Has("exitBW")
          /\ streamPos = 6 => currentMotorSpeed = 0

\* the sixth scan of the stream has just been handled
C8_Witness ==
    /\ streamPos = 6
    /\ Has("found")
    /\ currentScanInterval = NORMAL_SCAN_INTERVAL
    /\ ~inBoundaryWarning

\* C9 (as claimed): an iteration of loop() issues at most one intensity
\* command (counted as writes to the actuator, the weakest reading).
C9_Original == Len(Writes) <= 1

\* C9 (amended): an iteration that does not enter failsafe calls
\* setMotorSpeed at most three times and writes the actuator at most twice;
\* the iteration that enters failsafe calls it six times (0, 255, 0, 255, 0,
\* 255) and writes five or six values.
C9_CommandsPerTick ==
    /\ ~Has("enterFS") => (Len(Cmds) <= 3 /\ Len(Writes) <= 2)
    /\ Has("enterFS") => (Len(Cmds) = 6 /\ Len(Writes) \in {5, 6})
    /\ Len(Writes) <= Len(Cmds)

\* an iteration outside failsafe entry that wrote the actuator twice
C9_Witness ==
    /\ ~Has("enterFS")
    /\ Len(Writes) = 2
    /\ Len(Cmds) = 3

\* the mode transitions of the iteration: entries and exits that changed a mode
Transitions ==
    EvIdx(trace, "enterBW") \cup EvIdx(trace, "enterFS") \cup EvIdx(trace, "exitFS")
        \cup {i \in EvIdx(trace, "exitBW") : trace[i].v >= 10}

\* C10 (as claimed): an iteration of loop() performs at most one of
\* boundary entry, boundary exit, failsafe entry and failsafe exit.
C10_Original == Cardinality(Transitions) <= 1

\* C10 (amended): an iteration performs at most two mode transitions, and
\* two only as failsafe entry with the boundary exit it forces, or as
\* failsafe exit followed by boundary entry; each kind at most once.
C10_TransitionsPerTick ==
    /\ Cardinality(Transitions) <= 2
    /\ \A e \in {"enterBW", "exitBW", "enterFS", "exitFS"} :
          Cardinality(EvIdx(trace, e)) <= 1
    /\ Cardinality(Transitions) = 2 =>
          \/ /\ Has("enterFS")
             /\ \E i \in EvIdx(trace, "exitBW") : trace[i].v >= 10
             /\ ~Has("exitFS") /\ ~Has("enterBW")
          \/ /\ Has("exitFS") /\ Has("enterBW")
             /\ ~Has("enterFS") /\ ~Has("exitBW")
             /\ \A i \in EvIdx(trace, "exitFS"), j \in EvIdx(trace, "enterBW") : i < j

\* a weak sighting during failsafe: failsafe exit and boundary entry together
C10_Witness ==
    /\ Has("exitFS")
    /\ Has("enterBW")
    /\ inBoundaryWarning
    /\ ~inFailsafe

\* C11: every analogWrite of an iteration carries a value in 0..255 that
\* differs from the value written before it, and currentMotorSpeed is the
\* value last written.
C11_WritesDiffer ==
    [][LET W == ValuesOf(trace', "write")
       IN /\ \A i \in 1..Len(W) :
                /\ W[i] \in 0..255
                /\ W[i] # (IF i = 1 THEN motorPin ELSE W[i - 1])
          /\ motorPin' = (IF W = <<>> THEN motorPin ELSE W[Len(W)])
          /\ currentMotorSpeed' = motorPin'
          /\ currentMotorSpeed = motorPin
      ]_vars

\* an iteration wrote 0 and then the mapped speed, and the record follows
C11_Witness ==
    /\ Writes = <<0, 85>>
    /\ motorPin = 85
    /\ currentMotorSpeed = 85

\* C12 (as claimed): after a scan that does not find the target and does
\* not lead to failsafe, the interval is FAST and the motor speed at the end
\* of the iteration is 255, the boundary pattern entered or not.
C12_Original ==
    (Has("absent") /\ ~inFailsafe) =>
        (currentScanInterval = FAST_SCAN_INTERVAL /\ currentMotorSpeed = MAX_SPEED)

\* C13 (as claimed): while the pattern is entered the motor speed at the end
\* of an iteration is 200 when Pulsing and 0 when in a pause.
C13_Original ==
    inBoundaryWarning =>
        /\ buzzing => currentMotorSpeed = WARNING_SPEED
        /\ buzzPause => currentMotorSpeed = 0

\* C14: at the end of every iteration buzzCount is 0, 1 or 2; the pattern
\* complete event happens exactly when the third pulse of a triple ends,
\* which starts a pause with the count reset to 0 (the long pause); the end
\* of the first and of the second pulse starts a pause with the count 1 and
\* 2 (the short pause).
C14_PulseCount ==
    /\ buzzCount \in {0, 1, 2}
    /\ Has("patternComplete") <=> (\E i \in EvIdx(trace, "pulseEnd") : trace[i].v = 3)
    /\ \A i \in EvIdx(trace, "pulseEnd") :
          /\ trace[i].v \in {1, 2, 3}
          /\ buzzPause /\ ~buzzing
          /\ buzzCount = trace[i].v % 3
          /\ buzzStartTime = patternTickedAt
    /\ (inBoundaryWarning /\ buzzPause) =>
          /\ pulsesDone >= 1
          /\ buzzCount = pulsesDone % 3

\* the third pulse has just ended and the long pause runs
C14_Witness ==
    /\ Has("patternComplete")
    /\ inBoundaryWarning
    /\ buzzPause
    /\ buzzCount = 0
    /\ pulsesDone = 3

\* C15: under SpecLive (loop() runs forever and the clock advances), if from
\* some point on no scan finds the target, then from some point on failsafe is
\* Active for ever.
C15_FailsafeReached == (<>[](~Has("found"))) => <>[]inFailsafe

\* a scan has missed while failsafe was Active already, and failsafe stays
C15_Witness ==
    /\ inFailsafe
    /\ Has("absent")
    /\ ~Has("enterFS")
    /\ failedScans = MAX_SCAN_ATTEMPTS
    /\ currentMotorSpeed = MAX_SPEED

LongPause == inBoundaryWarning /\ buzzPause /\ buzzCount = 0

\* C16: under SpecLive, if from some point on the boundary pattern stays
\* entered, it is Pulsing infinitely often and in LongPause infinitely often;
\* and a scan that finds a weak signal while the pattern is entered neither
\* enters nor exits it: the pattern tick of that iteration starts from the
\* sub-state and the pulse count the iteration started with.
C16_PatternRepeats ==
    /\ (<>[]inBoundaryWarning) => (([]<>(inBoundaryWarning /\ buzzing)) /\ []<>LongPause)
    /\ [][(/\ inBoundaryWarning
           /\ HasIn(trace', "found")
           /\ ValuesOf(trace', "found")[1] <= RSSI_THRESHOLD)
          => /\ ~HasIn(trace', "enterBW")
             /\ ~HasIn(trace', "exitBW")
             /\ inBoundaryWarning'
             /\ ValuesOf(trace', "tickBW") = <<SubState(State)>>
             /\ buzzCount' = (buzzCount + (IF HasIn(trace', "pulseEnd") THEN 1 ELSE 0)) % 3
             /\ (buzzing /\ ~HasIn(trace', "pulseEnd")) => buzzing'
         ]_vars

\* a weak sighting during the long pause of a pattern that stays entered
C16_Witness ==
    /\ LongPause
    /\ Has("found")
    /\ ValuesOf(trace, "tickBW") = <<2>>
    /\ ~Has("enterBW")
    /\ currentScanInterval = FAST_SCAN_INTERVAL

\* C17: a scan that finds the target while failsafe is Active makes it
\* Inactive in the same iteration, sets lastNetworkSeen to the time of the
\* scan's result and failedScans to 0, and silences the motor (a write of 0)
\* before the strength is classified; the mode then follows the strength:
\* pattern entered and FAST when weak, mapped speed and NORMAL when strong.
C17_Recovery ==
    [][(inFailsafe /\ HasIn(trace', "found")) =>
          /\ ~inFailsafe'
          /\ failedScans' = 0
          /\ lastNetworkSeen' >= now
          /\ lastNetworkSeen' = now' - LOOP_DELAY
          /\ Len(trace') >= 5
          /\ trace'[1].ev = "found"
          /\ trace'[2] = [ev |-> "exitFS", v |-> 0]
          /\ trace'[3] = [ev |-> "cmd", v |-> 0]
          /\ trace'[4] = [ev |-> "write", v |-> 0]
          /\ IF trace'[1].v <= RSSI_THRESHOLD
             THEN /\ trace'[5].ev = "enterBW"
                  /\ inBoundaryWarning'
                  /\ currentScanInterval' = FAST_SCAN_INTERVAL
             ELSE /\ trace'[5] = [ev |-> "cmd", v |-> mapRSSIToMotorSpeed(trace'[1].v)]
                  /\ ~HasIn(trace', "enterBW")
                  /\ ~inBoundaryWarning'
                  /\ currentMotorSpeed' = mapRSSIToMotorSpeed(trace'[1].v)
                  /\ currentScanInterval' = NORMAL_SCAN_INTERVAL
      ]_vars

\* a strong sighting at -60 ended failsafe and left the mapped speed
C17_Witness ==
    /\ Has("exitFS")
    /\ ~inFailsafe
    /\ failedScans = 0
    /\ Writes = <<0, 85>>
    /\ currentScanInterval = NORMAL_SCAN_INTERVAL

C19_Original ==
    /\ Has("absent") => currentScanInterval = FAST_SCAN_INTERVAL
    /\ inFailsafe => currentScanInterval = FAST_SCAN_INTERVAL

\* C20: buzzing and buzzPause are never both true at the end of an
\* iteration, and either being true implies inBoundaryWarning.
C20_ValidEncoding ==
    /\ ~(buzzing /\ buzzPause)
    /\ (buzzing \/ buzzPause) => inBoundaryWarning

\* the third pulse of a triple is running
C20_Witness ==
    /\ inBoundaryWarning
    /\ buzzing
    /\ ~buzzPause
    /\ buzzCount = 2
    /\ pulsesDone = 2

====
